---- MODULE Spec2Model ----
(***************************************************************************)
(* A model of fnol_agent.py: field extraction from the text of a loss      *)
(* notice (extract_fields), the amount parser (parse_amount), the missing  *)
(* field detector (find_missing_fields) and the routing chain              *)
(* (apply_routing_rules), composed as in process_pdf.                      *)
(*                                                                         *)
(* A Python str is a sequence of one-character strings, None is the record *)
(* None, a dict is a function from its keys, a list is a sequence.  A       *)
(* justification is a TLA+ string, built with \o as the code builds it     *)
(* with + and join.                                                        *)
(***************************************************************************)
EXTENDS Integers, Sequences, FiniteSets, TLC

VARIABLES entry, pc, text, fields, missing, amount_str, amount, route, reasoning

vars == <<entry, pc, text, fields, missing, amount_str, amount, route, reasoning>>

-----------------------------------------------------------------------------
(* Optional[str] and Optional[float] *)

None == [some |-> FALSE, s |-> <<>>]

Some(s) == [some |-> TRUE, s |-> s]

\* Python's truth value of an Optional[str]: None and "" are falsy
Truthy(v) == v.some /\ v.s # <<>>

\* (v or "")
OrEmpty(v) == IF Truthy(v) THEN v.s ELSE <<>>

-----------------------------------------------------------------------------
(* Characters *)

Digits == {"0","1","2","3","4","5","6","7","8","9"}

UpperLetters == {"A","B","C","D","E","F","G","H","I","J","K","L","M",
                 "N","O","P","Q","R","S","T","U","V","W","X","Y","Z"}

LowerLetters == {"a","b","c","d","e","f","g","h","i","j","k","l","m",
                 "n","o","p","q","r","s","t","u","v","w","x","y","z"}

LowerOf == ("A" :> "a") @@ ("B" :> "b") @@ ("C" :> "c") @@ ("D" :> "d") @@
           ("E" :> "e") @@ ("F" :> "f") @@ ("G" :> "g") @@ ("H" :> "h") @@
           ("I" :> "i") @@ ("J" :> "j") @@ ("K" :> "k") @@ ("L" :> "l") @@
           ("M" :> "m") @@ ("N" :> "n") @@ ("O" :> "o") @@ ("P" :> "p") @@
           ("Q" :> "q") @@ ("R" :> "r") @@ ("S" :> "s") @@ ("T" :> "t") @@
           ("U" :> "u") @@ ("V" :> "v") @@ ("W" :> "w") @@ ("X" :> "x") @@
           ("Y" :> "y") @@ ("Z" :> "z")

UpperOf == ("a" :> "A") @@ ("b" :> "B") @@ ("c" :> "C") @@ ("d" :> "D") @@
           ("e" :> "E") @@ ("f" :> "F") @@ ("g" :> "G") @@ ("h" :> "H") @@
           ("i" :> "I") @@ ("j" :> "J") @@ ("k" :> "K") @@ ("l" :> "L") @@
           ("m" :> "M") @@ ("n" :> "N") @@ ("o" :> "O") @@ ("p" :> "P") @@
           ("q" :> "Q") @@ ("r" :> "R") @@ ("s" :> "S") @@ ("t" :> "T") @@
           ("u" :> "U") @@ ("v" :> "V") @@ ("w" :> "W") @@ ("x" :> "X") @@
           ("y" :> "Y") @@ ("z" :> "Z")

\* str.lower() of one character
LowerChar(c) == IF c \in UpperLetters THEN LowerOf[c] ELSE c

\* str.upper() of one character: a sequence, since "ß".upper() is "SS"
UpperChar(c) == IF c \in LowerLetters THEN <<UpperOf[c]>>
                ELSE IF c = "ß" THEN <<"S","S">> ELSE <<c>>

\* str.lower()
Lower(s) == [i \in 1..Len(s) |-> LowerChar(s[i])]

\* str.upper(), by halves
RECURSIVE Upper(_)
Upper(s) == IF s = <<>> THEN <<>>
            ELSE IF Len(s) = 1 THEN UpperChar(s[1])
            ELSE Upper(SubSeq(s, 1, Len(s) \div 2)) \o Upper(SubSeq(s, Len(s) \div 2 + 1, Len(s)))

\* the characters str.strip() removes, and the regular expressions' \s
IsSpace(c) == c \in {" ", "\n", "\t", "\r"}

\* the regular expressions' \w
IsWord(c) == c \in Digits \/ c \in UpperLetters \/ c \in LowerLetters \/ c = "_"

\* needle in hay
Contains(hay, needle) ==
    \E i \in 0..(Len(hay) - Len(needle)) :
        \A j \in 1..Len(needle) : hay[i + j] = needle[j]

\* str.strip(): from the first to the last character that is not a space
Strip(s) ==
    LET kept == {i \in 1..Len(s) : ~IsSpace(s[i])}
    IN IF kept = {} THEN <<>>
       ELSE SubSeq(s, CHOOSE i \in kept : \A j \in kept : i <= j,
                      CHOOSE i \in kept : \A j \in kept : j <= i)

-----------------------------------------------------------------------------
(* Regular expressions, as re.search matches them under                    *)
(* re.IGNORECASE | re.DOTALL.  A pattern is a sequence of items.  An item  *)
(* is a literal string (str), or a character class (cls) that matches at   *)
(* least min characters, and at most one unless many (the * and + of the   *)
(* source), greedily or lazily, and that may be the capture group.         *)

\* a literal string
LitStr(s) == [kind |-> "str", str |-> s, cls |-> "", ch |-> "",
              min |-> Len(s), many |-> FALSE, greedy |-> TRUE, cap |-> FALSE]

Class(cls, c, min, many, greedy, cap) ==
    [kind |-> "cls", str |-> <<>>, cls |-> cls, ch |-> c,
     min |-> min, many |-> many, greedy |-> greedy, cap |-> cap]

\* one literal character c, and c?
Lit(c) == Class("lit", c, 1, FALSE, TRUE, FALSE)

Opt(c) == Class("lit", c, 0, FALSE, TRUE, FALSE)

\* cls* (greedy), cls*? (lazy), cls+, and the capture group (cls+)
Star(cls) == Class(cls, "", 0, TRUE, TRUE, FALSE)

LazyStar(cls) == Class(cls, "", 0, TRUE, FALSE, FALSE)

Plus(cls) == Class(cls, "", 1, TRUE, TRUE, FALSE)

Group(cls) == Class(cls, "", 1, TRUE, TRUE, TRUE)

\* whether character c matches item e (IGNORECASE: letters in either case; DOTALL: "." matches "\n")
ItemMatches(e, c) ==
    CASE e.cls = "lit"        -> LowerChar(c) = LowerChar(e.ch)
      [] e.cls = "space"      -> IsSpace(c)                                   \* \s
      [] e.cls = "any"        -> TRUE                                         \* .
      [] e.cls = "policy"     -> IsWord(c) \/ c \in {"-", "/"}                \* [\w\-\/]
      [] e.cls = "name"       -> \/ c \in UpperLetters \/ c \in LowerLetters  \* [A-Z0-9 ,.'\-]
                                 \/ c \in Digits \/ c \in {" ", ",", ".", "'", "-"}
      [] e.cls = "date"       -> c \in Digits \/ c \in {"/", "-"}             \* [\d\/\-]
      [] e.cls = "time"       -> \/ c \in {"A","P","M","a","p","m"}           \* [APM0-9: ]
                                 \/ c \in Digits \/ c \in {":", " "}
      [] e.cls = "colonspace" -> c \in {":", " "}                             \* [: ]
      [] e.cls = "amount"     -> c \in Digits \/ c \in {",", "."}             \* [\d,\.]

\* the first position in lo..hi whose character does not match item e, or hi + 1
\* (by halves)
RECURSIVE RunEnd(_, _, _, _)
RunEnd(e, t, lo, hi) ==
    IF lo > hi THEN hi + 1
    ELSE IF lo = hi THEN (IF ItemMatches(e, t[lo]) THEN hi + 1 ELSE lo)
    ELSE LET mid == (lo + hi) \div 2
             left == RunEnd(e, t, lo, mid)
         IN IF left <= mid THEN left ELSE RunEnd(e, t, mid + 1, hi)

\* how many characters from position pos on (1-based) match the class item e,
\* at most one unless e.many
RunLen(e, t, pos) ==
    RunEnd(e, t, pos, IF e.many THEN Len(t) ELSE IF pos <= Len(t) THEN pos ELSE Len(t)) - pos

\* whether the literal string s is in t at position pos, in any letter case
StrAt(s, t, pos) ==
    /\ pos + Len(s) - 1 <= Len(t)
    /\ \A j \in 1..Len(s) : LowerChar(t[pos + j - 1]) = LowerChar(s[j])

NoMatch == [ok |-> FALSE, groups |-> <<>>]

\* the match of items k.. of pat at position pos, with backtracking: a greedy
\* item tries its longest run first, a lazy one its shortest, and the first
\* count the rest of the pattern matches after is taken (TryCounts: the first
\* such count among lo..hi, by halves).  groups is the sequence of the groups'
\* captured strings (here at most one).
RECURSIVE MatchFrom(_, _, _, _), TryCounts(_, _, _, _, _, _)
MatchFrom(pat, k, t, pos) ==
    IF k > Len(pat) THEN [ok |-> TRUE, groups |-> <<>>]
    ELSE IF pat[k].kind = "str"
    THEN IF StrAt(pat[k].str, t, pos) THEN MatchFrom(pat, k + 1, t, pos + Len(pat[k].str))
         ELSE NoMatch
    ELSE LET r == RunLen(pat[k], t, pos)
         IN IF r < pat[k].min THEN NoMatch
            ELSE TryCounts(pat, k, t, pos, pat[k].min, r)

TryCounts(pat, k, t, pos, lo, hi) ==
    IF lo = hi
    THEN LET rest == MatchFrom(pat, k + 1, t, pos + lo)
         IN IF ~rest.ok THEN NoMatch
            ELSE [ok |-> TRUE,
                  groups |-> IF pat[k].cap THEN <<SubSeq(t, pos, pos + lo - 1)>> \o rest.groups
                             ELSE rest.groups]
    ELSE LET mid == (lo + hi) \div 2
             short == TryCounts(pat, k, t, pos, lo, mid)
             long  == TryCounts(pat, k, t, pos, mid + 1, hi)
         IN IF pat[k].greedy
            THEN IF long.ok THEN long ELSE short
            ELSE IF short.ok THEN short ELSE long

\* re.search(pattern, text): the match at the leftmost position that has one
\* (SearchIn: among the positions lo..hi, by halves)
RECURSIVE SearchIn(_, _, _, _)
SearchIn(pat, t, lo, hi) ==
    IF lo = hi THEN MatchFrom(pat, 1, t, lo)
    ELSE LET mid == (lo + hi) \div 2
             left == SearchIn(pat, t, lo, mid)
         IN IF left.ok THEN left ELSE SearchIn(pat, t, mid + 1, hi)

Search(pat, t) == SearchIn(pat, t, 1, Len(t) + 1)

-----------------------------------------------------------------------------
(* The constants *)

MANDATORY_FIELDS ==
    << "Policy Number", "Policyholder Name", "Date of Loss", "Time of Loss",
       "Location", "Description", "Claim Type", "Estimated Damage",
       "Asset Type", "Initial Estimate", "Attachments" >>

TITLE == <<"A","U","T","O","M","O","B","I","L","E"," ","L","O","S","S"," ","N","O","T","I","C","E">>

AUTOMOBILE == <<"A","u","t","o","m","o","b","i","l","e">>

\* r"POLICY NUMBER\s*([\w\-\/]+)"
PolicyNumberPattern ==
    << LitStr(<<"P","O","L","I","C","Y"," ","N","U","M","B","E","R">>), Star("space"), Group("policy") >>

\* r"NAME OF INSURED.*?\n([A-Z0-9 ,.'\-]+)"
PolicyholderNamePattern ==
    << LitStr(<<"N","A","M","E"," ","O","F"," ","I","N","S","U","R","E","D">>), LazyStar("any"), Lit("\n"), Group("name") >>

\* r"DATE OF LOSS AND TIME\s*([\d\/\-]+)"
DateOfLossPattern ==
    << LitStr(<<"D","A","T","E"," ","O","F"," ","L","O","S","S"," ","A","N","D"," ","T","I","M","E">>), Star("space"), Group("date") >>

\* r"DATE OF LOSS AND TIME\s*[\d\/\-]+\s*([APM0-9: ]+)"
TimeOfLossPattern ==
    << LitStr(<<"D","A","T","E"," ","O","F"," ","L","O","S","S"," ","A","N","D"," ","T","I","M","E">>), Star("space"), Plus("date"),
       Star("space"), Group("time") >>

\* r"LOCATION OF LOSS\s*\n(.+)"
LocationPattern ==
    << LitStr(<<"L","O","C","A","T","I","O","N"," ","O","F"," ","L","O","S","S">>), Star("space"), Lit("\n"), Group("any") >>

\* r"DESCRIPTION OF ACCIDENT.*?\n(.+)"
DescriptionPattern ==
    << LitStr(<<"D","E","S","C","R","I","P","T","I","O","N"," ","O","F"," ","A","C","C","I","D","E","N","T">>), LazyStar("any"), Lit("\n"), Group("any") >>

\* r"LINE OF BUSINESS\s*([A-Z0-9 ,.'\-]+)"
ClaimTypePattern ==
    << LitStr(<<"L","I","N","E"," ","O","F"," ","B","U","S","I","N","E","S","S">>), Star("space"), Group("name") >>

\* r"ESTIMATE AMOUNT[: ]*\$?([\d,\.]+)"
EstimatedDamagePattern ==
    << LitStr(<<"E","S","T","I","M","A","T","E"," ","A","M","O","U","N","T">>), Star("colonspace"), Opt("$"), Group("amount") >>

\* r"AUTOMOBILE LOSS NOTICE": no capture group
AssetTypePattern == << LitStr(TITLE) >>

\* the dict FIELD_PATTERNS, in its insertion order (the order .items() iterates in)
FIELD_PATTERNS ==
    << [field |-> "Policy Number",     pattern |-> PolicyNumberPattern],
       [field |-> "Policyholder Name", pattern |-> PolicyholderNamePattern],
       [field |-> "Date of Loss",      pattern |-> DateOfLossPattern],
       [field |-> "Time of Loss",      pattern |-> TimeOfLossPattern],
       [field |-> "Location",          pattern |-> LocationPattern],
       [field |-> "Description",       pattern |-> DescriptionPattern],
       [field |-> "Claim Type",        pattern |-> ClaimTypePattern],
       [field |-> "Estimated Damage",  pattern |-> EstimatedDamagePattern],
       [field |-> "Asset Type",        pattern |-> AssetTypePattern] >>

-----------------------------------------------------------------------------
(* Dicts *)

\* d[k] = v: adds the key when d does not have it
DictSet(d, k, v) == [x \in DOMAIN d \cup {k} |-> IF x = k THEN v ELSE d[x]]

\* d.get(k)
DictGet(d, k) == IF k \in DOMAIN d THEN d[k] ELSE None

\* the elements of a sequence
Range(s) == {s[i] : i \in DOMAIN s}

-----------------------------------------------------------------------------
(* extract_fields *)

\* a bug: the dict is built from a list that lacks the last field
EmptyFields_ShortList ==
    [k \in {MANDATORY_FIELDS[i] : i \in 1..(Len(MANDATORY_FIELDS) - 1)} |-> None]

\* {k: None for k in MANDATORY_FIELDS}
EmptyFields == [k \in Range(MANDATORY_FIELDS) |-> None]

\* one turn of the loop over FIELD_PATTERNS.items(): match.group(1) raises
\* IndexError when the pattern has no group
RECURSIVE ExtractLoop(_, _, _)
ExtractLoop(t, i, fs) ==
    IF i > Len(FIELD_PATTERNS) THEN [raised |-> FALSE, fields |-> fs]
    ELSE LET field == FIELD_PATTERNS[i].field
             match == Search(FIELD_PATTERNS[i].pattern, t)
         IN IF ~match.ok THEN ExtractLoop(t, i + 1, fs)
            ELSE IF Len(match.groups) < 1 THEN [raised |-> TRUE, fields |-> fs]
            ELSE LET value == IF field = "Asset Type" THEN AUTOMOBILE
                              ELSE Strip(match.groups[1])
                 IN ExtractLoop(t, i + 1, DictSet(fs, field, Some(value)))

\* the fallback from the title, after the loop
AssetTypeFallback(t, fs) ==
    IF DictGet(fs, "Asset Type") = None /\ Contains(Upper(t), TITLE)
    THEN DictSet(fs, "Asset Type", Some(AUTOMOBILE)) ELSE fs

\* extract_fields(text): [raised |-> TRUE] for the IndexError, else the dict
extract_fields(t) ==
    LET r == ExtractLoop(t, 1, EmptyFields)
    IN IF r.raised THEN r
       ELSE [raised |-> FALSE, fields |-> AssetTypeFallback(t, r.fields)]

-----------------------------------------------------------------------------
(* parse_amount *)

\* Optional[float]: a float read from a decimal string is num / 10^scale,
\* with no trailing zero in its fraction (equal floats are equal records).
\* The strings here are short enough for the float to be that number exactly
\* where it is compared, and to be below 1e16.
NoAmount == [some |-> FALSE, num |-> 0, scale |-> 0]

DigitVal == ("0" :> 0) @@ ("1" :> 1) @@ ("2" :> 2) @@ ("3" :> 3) @@ ("4" :> 4) @@
            ("5" :> 5) @@ ("6" :> 6) @@ ("7" :> 7) @@ ("8" :> 8) @@ ("9" :> 9)

DigitChar == <<"0","1","2","3","4","5","6","7","8","9">>

RECURSIVE Pow10(_)
Pow10(k) == IF k = 0 THEN 1 ELSE 10 * Pow10(k - 1)

\* the integer a string of digits denotes
RECURSIVE IntOf(_)
IntOf(ds) == IF ds = <<>> THEN 0
             ELSE 10 * IntOf(SubSeq(ds, 1, Len(ds) - 1)) + DigitVal[ds[Len(ds)]]

RECURSIVE Normalize(_, _)
Normalize(n, k) == IF k > 0 /\ n % 10 = 0 THEN Normalize(n \div 10, k - 1)
                   ELSE [some |-> TRUE, num |-> n, scale |-> k]

\* a bug: the pattern is [^\d], and the decimal point is removed too
Cleaned_DigitsOnly(s) == SelectSeq(s, LAMBDA c : c \in Digits)

\* re.sub(r"[^\d\.]", "", amount_str)
Cleaned(s) == SelectSeq(s, LAMBDA c : c \in Digits \/ c = ".")

\* float(cleaned) of a string of digits and points: ValueError (NoAmount)
\* unless it has a digit and at most one point
Float(cleaned) ==
    LET points == SelectSeq(cleaned, LAMBDA c : c = ".")
        digits == SelectSeq(cleaned, LAMBDA c : c # ".")
        point  == CHOOSE i \in 1..Len(cleaned) : cleaned[i] = "."
    IN IF Len(points) > 1 \/ digits = <<>> THEN NoAmount
       ELSE IF points = <<>> THEN Normalize(IntOf(digits), 0)
       ELSE Normalize(IntOf(digits), Len(cleaned) - point)

parse_amount(v) ==
    IF ~Truthy(v) THEN NoAmount
    ELSE IF Cleaned(v.s) = <<>> THEN NoAmount
    ELSE Float(Cleaned(v.s))

\* estimate_val < n, for an integer n
AmountLess(a, n) == (a.num \div Pow10(a.scale)) < n

\* str(n) of a natural number, and its last k digits
RECURSIVE NatStr(_)
NatStr(n) == IF n < 10 THEN DigitChar[n + 1] ELSE NatStr(n \div 10) \o DigitChar[(n % 10) + 1]

RECURSIVE PadStr(_, _)
PadStr(n, k) == IF k = 0 THEN "" ELSE PadStr(n \div 10, k - 1) \o DigitChar[(n % 10) + 1]

RECURSIVE NumDigits(_)
NumDigits(n) == IF n < 10 THEN 1 ELSE 1 + NumDigits(n \div 10)

\* f"{estimate_val}": repr of a float, positional from 1e-4 up (below 1e16)
\* and with an exponent below 1e-4
FloatStr(a) ==
    LET e == a.scale - (NumDigits(a.num) - 1)
    IN IF a.num # 0 /\ e > 4
       THEN NatStr(a.num \div Pow10(NumDigits(a.num) - 1))
            \o (IF NumDigits(a.num) > 1
                THEN "." \o PadStr(a.num % Pow10(NumDigits(a.num) - 1), NumDigits(a.num) - 1)
                ELSE "")
            \o "e-" \o (IF e < 10 THEN "0" ELSE "") \o NatStr(e)
       ELSE NatStr(a.num \div Pow10(a.scale)) \o "."
            \o (IF a.scale = 0 THEN "0" ELSE PadStr(a.num % Pow10(a.scale), a.scale))

-----------------------------------------------------------------------------
(* find_missing_fields *)

\* a bug: the loop is over the fields that have a pattern
find_missing_fields_PatternsOnly(fs) ==
    SelectSeq([i \in DOMAIN FIELD_PATTERNS |-> FIELD_PATTERNS[i].field],
              LAMBDA name : ~Truthy(DictGet(fs, name)))

find_missing_fields(fs) ==
    SelectSeq(MANDATORY_FIELDS, LAMBDA name : ~Truthy(DictGet(fs, name)))

-----------------------------------------------------------------------------
(* apply_routing_rules *)

THRESHOLD == 25000

suspicious_words == << <<"f","r","a","u","d">>, <<"i","n","c","o","n","s","i","s","t","e","n","t">>, <<"s","t","a","g","e","d">> >>

INJURY == <<"i","n","j","u","r","y">>

\* ", ".join(names)
RECURSIVE Join(_)
Join(names) == IF names = <<>> THEN ""
               ELSE IF Len(names) = 1 THEN names[1]
               ELSE names[1] \o ", " \o Join(Tail(names))

\* a bug: one missing field is tolerated
MissingRule_MoreThanOne(m) == Len(m) > 1

\* rule 1: if missing
MissingRule(m) == m # <<>>

\* a bug: only the first word of the list is looked for
SuspiciousRule_FirstWordOnly(description) == Contains(description, suspicious_words[1])

\* rule 2: any(word in description for word in suspicious_words)
SuspiciousRule(description) ==
    \E i \in DOMAIN suspicious_words : Contains(description, suspicious_words[i])

\* rule 3: "injury" in claim_type
InjuryRule(claim_type) == Contains(claim_type, INJURY)

\* a bug: estimate_val <= 25000
FastTrackRule_AtMost(estimate_val) ==
    estimate_val.some /\ AmountLess(estimate_val, THRESHOLD + 1)

\* a bug: the threshold lacks a digit
FastTrackRule_LowThreshold(estimate_val) ==
    estimate_val.some /\ AmountLess(estimate_val, THRESHOLD \div 10)

\* rule 4: estimate_val is not None and estimate_val < 25000
FastTrackRule(estimate_val) == estimate_val.some /\ AmountLess(estimate_val, THRESHOLD)

apply_routing_rules(fs, m) ==
    LET description  == Lower(OrEmpty(DictGet(fs, "Description")))
        claim_type   == Lower(OrEmpty(DictGet(fs, "Claim Type")))
        estimate_val == parse_amount(DictGet(fs, "Estimated Damage"))
    IN IF MissingRule(m)
       THEN [route |-> "Manual review",
             reasoning |-> "One or more mandatory fields are missing: " \o Join(m)]
       ELSE IF SuspiciousRule(description)
       THEN [route |-> "Investigation Flag",
             reasoning |-> "Description contains potential fraud-related keywords."]
       ELSE IF InjuryRule(claim_type)
       THEN [route |-> "Specialist Queue",
             reasoning |-> "Claim type is injury, so it is routed to the specialist queue."]
       ELSE IF FastTrackRule(estimate_val)
       THEN [route |-> "Fast-track",
             reasoning |-> "Estimated damage (" \o FloatStr(estimate_val)
                           \o ") is less than 25,000."]
       ELSE [route |-> "Standard Queue",
             reasoning |-> "All mandatory fields present, no special conditions matched."]

-----------------------------------------------------------------------------
(* The inputs *)

\* how many lines a generated document text has at most
MaxLines == 2

\* how many names a generated Missing List has at most
MaxMissing == 2

\* how many fields of a generated Field Map differ from the complete one at most
MaxVaried == 2

\* how long a generated amount string is at most
MaxAmountLen == 4

\* "\n".join(parts)
RECURSIVE JoinLines(_)
JoinLines(parts) == IF parts = <<>> THEN <<>>
                    ELSE IF Len(parts) = 1 THEN parts[1]
                    ELSE parts[1] \o <<"\n">> \o JoinLines(Tail(parts))

\* lines of the form (labels in several letter cases, values, a blank line)
Lines ==
    << <<"P","O","L","I","C","Y"," ","N","U","M","B","E","R"," ","A","-","1">>,
       <<"N","A","M","E"," ","O","F"," ","I","N","S","U","R","E","D"," ","(","L","a","s","t",")">>,
       <<"J","."," ","D","O","E">>,
       <<"D","A","T","E"," ","O","F"," ","L","O","S","S"," ","A","N","D"," ","T","I","M","E"," ","1","/","2","/","2","4"," ","9",":","3","0"," ","A","M">>,
       <<"L","O","C","A","T","I","O","N"," ","O","F"," ","L","O","S","S">>,
       <<"D","E","S","C","R","I","P","T","I","O","N"," ","O","F"," ","A","C","C","I","D","E","N","T",":">>,
       <<"s","t","a","g","e","d"," ","h","i","t"," ">>,
       <<"L","i","n","e"," ","o","f"," ","B","u","s","i","n","e","s","s"," ","I","n","j","u","r","y">>,
       <<"E","S","T","I","M","A","T","E"," ","A","M","O","U","N","T",":"," ","$","1","0",",","0","0","0">>,
       <<"A","U","T","O","M","O","B","I","L","E"," ","L","O","S","S"," ","N","O","T","I","C","E">>,
       <<"A","u","t","o","m","o","b","i","l","e"," ","L","o","s","s"," ","N","o","t","i","c","e">>,
       <<"a","u","t","o","m","o","b","i","l","e"," ","l","o","ß"," ","n","o","t","i","c","e">>,
       <<" "," ">> >>

\* a complete form: every label with its value
FormHead ==
    << <<"P","O","L","I","C","Y"," ","N","U","M","B","E","R"," ","A","B","-","1","2","/","3">>,
       <<"N","A","M","E"," ","O","F"," ","I","N","S","U","R","E","D"," ","(","F","i","r","s","t",","," ","M","i","d","d","l","e",","," ","L","a","s","t",")">>,
       <<"J","O","H","N"," ","D","O","E">>,
       <<"D","A","T","E"," ","O","F"," ","L","O","S","S"," ","A","N","D"," ","T","I","M","E"," ","0","1","/","0","2","/","2","0","2","4"," ","1","0",":","3","0"," ","A","M">> >>

FormLocation == << <<"L","O","C","A","T","I","O","N"," ","O","F"," ","L","O","S","S">>, <<"1","2"," ","M","a","i","n"," ","S","t">> >>

FormTail(claimType, damage, description) ==
    << <<"L","I","N","E"," ","O","F"," ","B","U","S","I","N","E","S","S"," ">> \o claimType,
       <<"E","S","T","I","M","A","T","E"," ","A","M","O","U","N","T",":"," ">> \o damage,
       <<"I","N","I","T","I","A","L"," ","E","S","T","I","M","A","T","E"," ","$","9",",","0","0","0">>,
       <<"A","T","T","A","C","H","M","E","N","T","S"," ","p","h","o","t","o","s",".","z","i","p">>,
       <<"D","E","S","C","R","I","P","T","I","O","N"," ","O","F"," ","A","C","C","I","D","E","N","T">>,
       description >>

COMPREHENSIVE == <<"C","o","m","p","r","e","h","e","n","s","i","v","e">>

BODILY_INJURY == <<"B","o","d","i","l","y"," ","I","n","j","u","r","y">>

NoSuspicion == <<"R","e","a","r","-","e","n","d","e","d"," ","a","t"," ","a"," ","s","t","o","p"," ","l","i","g","h","t">>

StagedAndInconsistent == <<"c","l","a","i","m"," ","a","p","p","e","a","r","s"," ","s","t","a","g","e","d"," ","a","n","d"," ","i","n","c","o","n","s","i","s","t","e","n","t">>

\* the texts of the end-to-end scenarios A (with and without the form title), B, C and D
ScenarioA ==
    JoinLines(<<TITLE>> \o FormHead \o FormLocation
              \o FormTail(COMPREHENSIVE, <<"$","1","0",",","0","0","0">>, NoSuspicion))

ScenarioAUntitled ==
    JoinLines(FormHead \o FormLocation
              \o FormTail(COMPREHENSIVE, <<"$","1","0",",","0","0","0">>, NoSuspicion))

ScenarioB ==
    JoinLines(FormHead \o FormTail(COMPREHENSIVE, <<"$","1","0",",","0","0","0">>, NoSuspicion))

ScenarioC ==
    JoinLines(FormHead \o FormLocation
              \o FormTail(COMPREHENSIVE, <<"$","1","0",",","0","0","0">>, StagedAndInconsistent))

ScenarioD ==
    JoinLines(FormHead \o FormLocation
              \o FormTail(BODILY_INJURY, <<"$","5","0",",","0","0","0">>, NoSuspicion))

\* the text extract_text_from_pdf returns: lines joined by "\n"
Texts ==
    { JoinLines([i \in DOMAIN ls |-> Lines[ls[i]]]) :
          ls \in UNION { [1..n -> DOMAIN Lines] : n \in 0..MaxLines } }
    \cup { ScenarioA, ScenarioAUntitled, ScenarioB, ScenarioC, ScenarioD }

\* a Field Map with a usable value for every field
CompleteFields ==
    [k \in Range(MANDATORY_FIELDS) |->
        CASE k = "Description"      -> Some(NoSuspicion)
          [] k = "Claim Type"       -> Some(COMPREHENSIVE)
          [] k = "Estimated Damage" -> Some(<<"$","1","0",",","0","0","0">>)
          [] k = "Asset Type"       -> Some(AUTOMOBILE)
          [] OTHER                  -> Some(<<"x">>)]

Descriptions ==
    { None, Some(<<>>), Some(NoSuspicion), Some(StagedAndInconsistent),
      Some(<<"P","o","s","s","i","b","l","e"," ","F","R","A","U","D">>), Some(<<"A","n"," ","I","n","C","o","n","s","i","s","t","e","n","t"," ","s","t","o","r","y">>), Some(<<"s","t","a","g","e"," ","d">>) }

ClaimTypes ==
    { None, Some(COMPREHENSIVE), Some(BODILY_INJURY), Some(<<"I","N","J","U","R","Y">>), Some(<<"i","n","j","u","r"," ","y">>) }

Estimates ==
    { None, Some(<<>>), Some(<<"$","1","0",",","0","0","0">>), Some(<<"1","0",",","0","0","0">>), Some(<<"2","4","9","9","9",".","9","9">>),
      Some(<<"2","5","0","0","0">>), Some(<<"$","2","5",",","0","0","0",".","0","0">>), Some(<<"2","5","0","0","0",".","0","1">>), Some(<<"$","5","0",",","0","0","0">>),
      Some(<<"1","2",".","5",".","0","0">>), Some(<<".">>), Some(<<"N","/","A">>), Some(<<".","0","0","0","0","5">>), Some(<<"0">>) }

\* the Field Maps apply_routing_rules is called with
RoutedFields ==
    { [CompleteFields EXCEPT !["Description"] = d, !["Claim Type"] = c,
                             !["Estimated Damage"] = e] :
          d \in Descriptions, c \in ClaimTypes, e \in Estimates }

\* the order-preserving subsequences of MANDATORY_FIELDS of at most n names
SubLists(n) ==
    { SelectSeq(MANDATORY_FIELDS, LAMBDA name : name \in S) :
          S \in { T \in SUBSET Range(MANDATORY_FIELDS) : Cardinality(T) <= n } }

\* the Missing Lists apply_routing_rules is called with: the subsequences of at
\* most MaxMissing names, the whole list, and a list in another order
MissingLists ==
    SubLists(MaxMissing) \cup { MANDATORY_FIELDS, <<"Attachments", "Policy Number">> }

\* the values a field of a Field Map may hold in place of a usable one
Unusable == { None, Some(<<>>), Some(<<" ">>), Some(<<" ","\n">>) }

\* the Field Maps find_missing_fields is called with
VariedFields ==
    { [k \in Range(MANDATORY_FIELDS) |-> IF k \in DOMAIN f THEN f[k] ELSE CompleteFields[k]] :
          f \in UNION { [S -> Unusable] :
                          S \in { T \in SUBSET Range(MANDATORY_FIELDS) : Cardinality(T) <= MaxVaried } } }

AmountChars == {"0", "2", "5", ".", "$", ","}

\* the arguments parse_amount is called with
AmountStrings ==
    { None, Some(<<"$","1","2",",","5","0","0",".","0","0">>), Some(<<"1","2",".","5",".","0","0">>), Some(<<"1"," ","2","5","0",".","7","5"," ","U","S","D">>) }
    \cup { Some(s) : s \in UNION { [1..n -> AmountChars] : n \in 0..MaxAmountLen } }

-----------------------------------------------------------------------------
(* The calls.  entry is the function called; pc is the position in it.     *)

InitProcessPdf ==
    /\ entry = "process_pdf"
    /\ pc = "start"
    /\ text \in Texts
    /\ fields = EmptyFields
    /\ missing = <<>>
    /\ amount_str = None
    /\ amount = NoAmount
    /\ route = ""
    /\ reasoning = ""

InitFindMissingFields ==
    /\ entry = "find_missing_fields"
    /\ pc = "extracted"
    /\ text = <<>>
    /\ fields \in VariedFields
    /\ missing = <<>>
    /\ amount_str = None
    /\ amount = NoAmount
    /\ route = ""
    /\ reasoning = ""

InitApplyRoutingRules ==
    /\ entry = "apply_routing_rules"
    /\ pc = "detected"
    /\ text = <<>>
    /\ fields \in RoutedFields
    /\ missing \in MissingLists
    /\ amount_str = None
    /\ amount = NoAmount
    /\ route = ""
    /\ reasoning = ""

InitParseAmount ==
    /\ entry = "parse_amount"
    /\ pc = "parse"
    /\ text = <<>>
    /\ fields = EmptyFields
    /\ missing = <<>>
    /\ amount_str \in AmountStrings
    /\ amount = NoAmount
    /\ route = ""
    /\ reasoning = ""

Init == InitProcessPdf \/ InitFindMissingFields \/ InitApplyRoutingRules \/ InitParseAmount

\* fields = extract_fields(text); the IndexError ends process_pdf
ExtractFields ==
    /\ pc = "start"
    /\ LET r == extract_fields(text)
       IN IF r.raised
          THEN pc' = "raised" /\ UNCHANGED fields
          ELSE pc' = "extracted" /\ fields' = r.fields
    /\ UNCHANGED <<entry, text, missing, amount_str, amount, route, reasoning>>

\* missing = find_missing_fields(fields)
FindMissingFields ==
    /\ pc = "extracted"
    /\ missing' = find_missing_fields(fields)
    /\ pc' = IF entry = "find_missing_fields" THEN "done" ELSE "detected"
    /\ UNCHANGED <<entry, text, fields, amount_str, amount, route, reasoning>>

\* route, reasoning = apply_routing_rules(fields, missing), returned in the AgentOutput
ApplyRoutingRules ==
    /\ pc = "detected"
    /\ LET r == apply_routing_rules(fields, missing)
       IN route' = r.route /\ reasoning' = r.reasoning
    /\ pc' = "done"
    /\ UNCHANGED <<entry, text, fields, missing, amount_str, amount>>

\* parse_amount(amount_str)
ParseAmount ==
    /\ pc = "parse"
    /\ amount' = parse_amount(amount_str)
    /\ pc' = "done"
    /\ UNCHANGED <<entry, text, fields, missing, amount_str, route, reasoning>>

Next == ExtractFields \/ FindMissingFields \/ ApplyRoutingRules \/ ParseAmount

NextProcessPdf == ExtractFields \/ FindMissingFields \/ ApplyRoutingRules

\* every entry point
Spec == Init /\ [][Next]_vars

\* process_pdf on a text
SpecProcessPdf == InitProcessPdf /\ [][NextProcessPdf]_vars

\* find_missing_fields on a Field Map
SpecFindMissingFields == InitFindMissingFields /\ [][FindMissingFields]_vars

\* apply_routing_rules on a Field Map and a Missing List
SpecApplyRoutingRules == InitApplyRoutingRules /\ [][ApplyRoutingRules]_vars

\* parse_amount on a string or None
SpecParseAmount == InitParseAmount /\ [][ParseAmount]_vars

-----------------------------------------------------------------------------
(* The properties *)

\* whether process_pdf has come back from extract_fields with a Field Map
Extracted == entry = "process_pdf" /\ pc \in {"extracted", "detected", "done"}

\* whether the title phrase is in the text, in any letter case
TitleDetected(t) == Search(AssetTypePattern, t).ok \/ Contains(Upper(t), TITLE)

\* whether a Description has one of the suspicious words, in any letter case
HasSuspiciousWord(v) ==
    /\ v.some
    /\ \E w \in { <<"f","r","a","u","d">>, <<"i","n","c","o","n","s","i","s","t","e","n","t">>, <<"s","t","a","g","e","d">> } : Contains(Lower(v.s), w)

\* whether a Claim Type has "injury", in any letter case
HasInjury(v) == v.some /\ Contains(Lower(v.s), <<"i","n","j","u","r","y">>)

\* whether a value is absent, empty or blank
Blank(v) == ~v.some \/ \A i \in 1..Len(v.s) : IsSpace(v.s[i])

\* C1: extract_fields never raises: a call on any text comes back with a Field Map
C1_NeverRaises == entry = "process_pdf" => pc # "raised"

\* C2: when the title phrase is detected in the text, extract_fields returns a
\* Field Map whose Asset Type is "Automobile"; when it is not, Asset Type is absent
C2_AssetTypeFromTitle ==
    (entry = "process_pdf" /\ pc # "start") =>
        /\ pc # "raised"
        /\ fields["Asset Type"] = IF TitleDetected(text) THEN Some(AUTOMOBILE) ELSE None

\* C3, as stated: the pipeline on the text of scenario A (every labelled value,
\* no suspicious word, Claim Type Comprehensive, Estimated Damage $10,000, with
\* or without the title of the form) returns Fast-track, with a justification
\* that has 10000 and the threshold
C3_ScenarioAFastTrack ==
    (entry = "process_pdf" /\ text \in {ScenarioA, ScenarioAUntitled} /\ pc = "done") =>
        /\ route = "Fast-track"
        /\ reasoning = "Estimated damage (10000.0) is less than 25,000."

\* C3, amended: apply_routing_rules, called with a Field Map that has a usable
\* value for each of the eleven fields (no suspicious word, Claim Type
\* Comprehensive, Estimated Damage $10,000) and an empty Missing List, returns
\* Fast-track and "Estimated damage (10000.0) is less than 25,000."; the
\* pipeline on the text of scenario A does not end in Fast-track
C3_DirectFastTrack ==
    /\ ( /\ entry = "apply_routing_rules" /\ pc = "done" /\ missing = <<>>
         /\ \A k \in DOMAIN fields : ~Blank(fields[k])
         /\ fields["Description"] = Some(NoSuspicion)
         /\ fields["Claim Type"] = Some(COMPREHENSIVE)
         /\ fields["Estimated Damage"] = Some(<<"$","1","0",",","0","0","0">>) )
       => /\ route = "Fast-track"
          /\ reasoning = "Estimated damage (10000.0) is less than 25,000."
    /\ (entry = "process_pdf" /\ text \in {ScenarioA, ScenarioAUntitled}) => route # "Fast-track"

C3_Witness ==
    /\ entry = "apply_routing_rules" /\ pc = "done" /\ missing = <<>>
    /\ fields = CompleteFields
    /\ route = "Fast-track"

\* C4: with a non-empty Missing List, apply_routing_rules returns Manual review
\* whatever the fields hold, and the justification names the missing fields in
\* the order they were given in
C4_MissingDominates ==
    (entry = "apply_routing_rules" /\ pc = "done" /\ missing # <<>>) =>
        /\ route = "Manual review"
        /\ reasoning = "One or more mandatory fields are missing: " \o Join(missing)

C4_Witness ==
    /\ entry = "apply_routing_rules" /\ pc = "done"
    /\ missing = <<"Location", "Attachments">>
    /\ fields["Description"] = Some(StagedAndInconsistent)
    /\ fields["Claim Type"] = Some(BODILY_INJURY)
    /\ route = "Manual review"
    /\ reasoning = "One or more mandatory fields are missing: Location, Attachments"

\* C5: with an empty Missing List, a Description with a suspicious word (in any
\* letter case) gives Investigation Flag, whatever the Claim Type and the
\* Estimated Damage; otherwise a Claim Type with "injury" (in any letter case)
\* gives Specialist Queue, whatever the Estimated Damage
C5_FirstMatchWins ==
    (entry = "apply_routing_rules" /\ pc = "done" /\ missing = <<>>) =>
        IF HasSuspiciousWord(fields["Description"]) THEN route = "Investigation Flag"
        ELSE HasInjury(fields["Claim Type"]) => route = "Specialist Queue"

C5_Witness ==
    /\ entry = "apply_routing_rules" /\ pc = "done" /\ missing = <<>>
    /\ fields["Description"] = Some(StagedAndInconsistent)
    /\ fields["Claim Type"] = Some(BODILY_INJURY)
    /\ fields["Estimated Damage"] = Some(<<"$","1","0",",","0","0","0">>)
    /\ route = "Investigation Flag"

\* C6: with an empty Missing List, no suspicious word and no "injury",
\* apply_routing_rules returns Fast-track if and only if the parsed Estimated
\* Damage is present and below 25000, and Standard Queue otherwise: so at
\* 25000 exactly, and with no amount
C6_FastTrackIff ==
    ( /\ entry = "apply_routing_rules" /\ pc = "done" /\ missing = <<>>
      /\ ~HasSuspiciousWord(fields["Description"])
      /\ ~HasInjury(fields["Claim Type"]) )
    => LET a == parse_amount(fields["Estimated Damage"])
           below == a.some /\ (a.num \div Pow10(a.scale)) <= THRESHOLD - 1
       IN /\ route = IF below THEN "Fast-track" ELSE "Standard Queue"
          /\ fields["Estimated Damage"] \in {None, Some(<<"2","5","0","0","0">>), Some(<<"$","2","5",",","0","0","0",".","0","0">>)}
                => route = "Standard Queue"
          /\ fields["Estimated Damage"] \in {Some(<<"2","4","9","9","9",".","9","9">>), Some(<<"0">>)}
                => route = "Fast-track"

C6_Witness ==
    /\ entry = "apply_routing_rules" /\ pc = "done" /\ missing = <<>>
    /\ fields["Description"] = Some(NoSuspicion)
    /\ fields["Claim Type"] = Some(COMPREHENSIVE)
    /\ fields["Estimated Damage"] = Some(<<"2","5","0","0","0">>)
    /\ route = "Standard Queue"

C8_KeySet ==
    Extracted =>
        /\ DOMAIN fields = Range(MANDATORY_FIELDS)
        /\ Cardinality(DOMAIN fields) = 11
        /\ fields["Initial Estimate"] = None
        /\ fields["Attachments"] = None

C8_Witness ==
    /\ Extracted
    /\ fields["Policy Number"] = Some(<<"A","-","1">>)
    /\ fields["Claim Type"] = None

\* C9: parse_amount returns no amount for None, for a string with no digit and
\* no point, and for one whose digits and points are not a decimal number (two
\* points or more, or a point alone); otherwise the number its digits and
\* point denote
C9_ParseAmount ==
    (entry = "parse_amount" /\ pc = "done") =>
        LET kept   == IF amount_str.some
                      THEN SelectSeq(amount_str.s, LAMBDA c : c \in Digits \cup {"."})
                      ELSE <<>>
            digits == SelectSeq(kept, LAMBDA c : c \in Digits)
            points == Len(kept) - Len(digits)
            after  == IF points = 0 THEN 0
                      ELSE Len(kept) - (CHOOSE i \in 1..Len(kept) : kept[i] = ".")
        IN /\ IF kept = <<>> \/ points > 1 \/ kept = <<".">>
              THEN amount = NoAmount
              ELSE /\ amount.some
                   /\ amount.scale <= after
                   /\ amount.num * Pow10(after - amount.scale) = IntOf(digits)
           /\ amount_str = Some(<<"$","1","2",",","5","0","0",".","0","0">>) => amount = [some |-> TRUE, num |-> 12500, scale |-> 0]
           /\ amount_str = Some(<<"1","2",".","5",".","0","0">>) => amount = NoAmount

C9_Witness ==
    /\ entry = "parse_amount" /\ pc = "done"
    /\ amount_str = Some(<<"$","1","2",",","5","0","0",".","0","0">>)
    /\ amount = [some |-> TRUE, num |-> 12500, scale |-> 0]

\* C10: when process_pdf returns, the Missing List has Initial Estimate and
\* Attachments and the Routing Decision is Manual review; a decision other than
\* Manual review comes only from apply_routing_rules called with an empty
\* Missing List
C10_PipelineManualReview ==
    /\ (entry = "process_pdf" /\ pc \in {"detected", "done"}) =>
            {"Initial Estimate", "Attachments"} \subseteq Range(missing)
    /\ (entry = "process_pdf" /\ pc = "done") => route = "Manual review"
    /\ (pc = "done" /\ route \in {"Investigation Flag", "Specialist Queue",
                                  "Fast-track", "Standard Queue"})
            => entry = "apply_routing_rules" /\ missing = <<>>

C10_Witness ==
    /\ entry = "process_pdf" /\ pc = "done"
    /\ text = ScenarioC
    /\ fields["Description"] = Some(StagedAndInconsistent)
    /\ route = "Manual review"

====
